---- MODULE Spec2Model ----
(***************************************************************************)
(* A model of resume_builder.py: the interactive collection of the resume  *)
(* record, the LaTeX escaping pass, and the render / compile / cleanup     *)
(* tail of main().                                                         *)
(*                                                                         *)
(* Representation.  A Python str is a sequence of one-character strings    *)
(* (so that escaping, splitting and joining are computed, not assumed).    *)
(* A Python value is a tagged record: Str(s), List(seq), Dict(f) with f a  *)
(* function from key strings to values, and Other(v) for any value that is *)
(* neither a dict, a list nor a str (an int, None, a tuple ...).           *)
(***************************************************************************)
EXTENDS Integers, Sequences, FiniteSets, TLC

VARIABLES
    pc,                     \* position of main(): the statement about to run
    idx,                    \* index of the current prompt inside a function
    sec,                    \* which repeated-entry section is being collected
    resume_data,            \* the module-level dict resume_data
    summary_lines,          \* local of collect_summary
    skills,                 \* local of collect_technical_skills
    entries,                \* local list of a collect_<section> function
    fields,                 \* answers already given for the entry being built
    items,                  \* local of get_list_input
    tty,                    \* every input() call so far: its prompt and what it read
    fuel,                   \* optional answers the user may still type
    sanitized_resume_data,  \* local of main()
    render_arg,             \* what template.render() was given
    files,                  \* files of the working directory
    runs,                   \* outcome of every subprocess.run call so far
    removed,                \* the paths os.remove() was called with, in order
    stdout,                 \* the report messages main() has printed
    calls                   \* the stages main() has entered, in order

vars == << pc, idx, sec, resume_data, summary_lines, skills, entries, fields,
           items, tty, fuel, sanitized_resume_data, render_arg, files, runs,
           removed, stdout, calls >>

-----------------------------------------------------------------------------
(* Python values *)

Str(s) == [tag |-> "str", val |-> s]
List(s) == [tag |-> "list", val |-> s]
Dict(f) == [tag |-> "dict", val |-> f]
Other(v) == [tag |-> "other", val |-> v]
Unset == [tag |-> "unset", val |-> 0]

EmptyDict == Dict(<<>>)

\* d[k] = v on a dict value
SetItem(d, k, v) ==
    Dict([x \in (DOMAIN d.val) \cup {k} |-> IF x = k THEN v ELSE d.val[x]])

-----------------------------------------------------------------------------
(* escape_latex_special_chars *)

\* conv with the underscore forgotten
conv_without_underscore ==
    << [k |-> <<"\\">>, v |-> <<"\\", "\\">>],
       [k |-> <<"&">>,  v |-> <<"\\", "&">>],
       [k |-> <<"%">>,  v |-> <<"\\", "%">>],
       [k |-> <<"$">>,  v |-> <<"\\", "$">>],
       [k |-> <<"#">>,  v |-> <<"\\", "#">>],
       [k |-> <<"{">>,  v |-> <<"\\", "{">>],
       [k |-> <<"}">>,  v |-> <<"\\", "}">>],
       [k |-> <<"~">>,  v |-> <<"\\", "t", "e", "x", "t", "a", "s", "c", "i",
                                "i", "t", "i", "l", "d", "e", "{", "}">>],
       [k |-> <<"^">>,  v |-> <<"\\", "t", "e", "x", "t", "a", "s", "c", "i",
                                "i", "c", "i", "r", "c", "u", "m", "{", "}">>] >>

\* the dict conv, in insertion order
conv ==
    << [k |-> <<"\\">>, v |-> <<"\\", "\\">>],
       [k |-> <<"&">>,  v |-> <<"\\", "&">>],
       [k |-> <<"%">>,  v |-> <<"\\", "%">>],
       [k |-> <<"$">>,  v |-> <<"\\", "$">>],
       [k |-> <<"#">>,  v |-> <<"\\", "#">>],
       [k |-> <<"_">>,  v |-> <<"\\", "_">>],
       [k |-> <<"{">>,  v |-> <<"\\", "{">>],
       [k |-> <<"}">>,  v |-> <<"\\", "}">>],
       [k |-> <<"~">>,  v |-> <<"\\", "t", "e", "x", "t", "a", "s", "c", "i",
                                "i", "t", "i", "l", "d", "e", "{", "}">>],
       [k |-> <<"^">>,  v |-> <<"\\", "t", "e", "x", "t", "a", "s", "c", "i",
                                "i", "c", "i", "r", "c", "u", "m", "{", "}">>] >>

\* conv[key]
ConvGet(key) == conv[CHOOSE i \in 1..Len(conv) : conv[i].k = key].v

RECURSIVE KeysOfLen(_, _)
KeysOfLen(n, i) ==
    IF i > Len(conv) THEN << >>
    ELSE (IF Len(conv[i].k) = n THEN << conv[i].k >> ELSE << >>)
         \o KeysOfLen(n, i + 1)

RECURSIVE LongestFirst(_)
LongestFirst(n) == IF n = 0 THEN << >> ELSE KeysOfLen(n, 1) \o LongestFirst(n - 1)

MaxKeyLen ==
    CHOOSE n \in {Len(conv[i].k) : i \in 1..Len(conv)} :
        \A i \in 1..Len(conv) : Len(conv[i].k) <= n

\* sorted(conv.keys(), key=lambda item: - len(item)): a stable sort, longest first
SortedKeys == LongestFirst(MaxKeyLen)

\* does the literal pattern pat match text at position pos
MatchesAt(pat, text, pos) ==
    /\ pos + Len(pat) - 1 <= Len(text)
    /\ \A j \in 1..Len(pat) : text[pos + j - 1] = pat[j]

\* the alternation k1|k2|...: the first alternative that matches at pos, or << >>
RegexMatch(text, pos) ==
    LET hits == {i \in 1..Len(SortedKeys) : MatchesAt(SortedKeys[i], text, pos)}
    IN  IF hits = {} THEN << >>
        ELSE SortedKeys[CHOOSE i \in hits : \A j \in hits : i <= j]

\* a substitution that keeps the replacements and loses the text between them
RECURSIVE RegexSub_matches_only(_, _)
RegexSub_matches_only(text, pos) ==
    IF pos > Len(text) THEN << >>
    ELSE LET m == RegexMatch(text, pos)
         IN  IF m = << >>
             THEN RegexSub_matches_only(text, pos + 1)
             ELSE ConvGet(m) \o RegexSub_matches_only(text, pos + Len(m))

\* regex.sub(lambda match: conv[match.group()], text), scanning from pos
RECURSIVE RegexSub(_, _)
RegexSub(text, pos) ==
    IF pos > Len(text) THEN << >>
    ELSE LET m == RegexMatch(text, pos)
         IN  IF m = << >>
             THEN << text[pos] >> \o RegexSub(text, pos + 1)
             ELSE ConvGet(m) \o RegexSub(text, pos + Len(m))

escape_latex_special_chars(text) ==
    IF text.tag # "str" THEN text ELSE Str(RegexSub(text.val, 1))

-----------------------------------------------------------------------------
(* sanitize_data *)

\* a traversal that escapes the keys of a dict as well
RECURSIVE sanitize_data_and_keys(_)
sanitize_data_and_keys(data) ==
    IF data.tag = "dict"
    THEN Dict([e \in {RegexSub(k, 1) : k \in DOMAIN data.val} |->
                LET k == CHOOSE x \in DOMAIN data.val : RegexSub(x, 1) = e
                IN  sanitize_data_and_keys(data.val[k])])
    ELSE IF data.tag = "list"
    THEN List([i \in 1..Len(data.val) |-> sanitize_data_and_keys(data.val[i])])
    ELSE IF data.tag = "str"
    THEN escape_latex_special_chars(data)
    ELSE data

RECURSIVE sanitize_data(_)
sanitize_data(data) ==
    IF data.tag = "dict"
    THEN Dict([k \in DOMAIN data.val |-> sanitize_data(data.val[k])])
    ELSE IF data.tag = "list"
    THEN List([i \in 1..Len(data.val) |-> sanitize_data(data.val[i])])
    ELSE IF data.tag = "str"
    THEN escape_latex_special_chars(data)
    ELSE data

-----------------------------------------------------------------------------
(* The terminal.  input() either returns a line or raises EOFError. *)

Line(s) == [eof |-> FALSE, line |-> s]
EOF == [eof |-> TRUE, line |-> << >>]
Blank == << >>

\* one input() call: the function that made it, the prompt it showed, what it read
Read(fn, prompt, ev) == [fn |-> fn, prompt |-> prompt, read |-> ev]

\* answers to the prompts whose value steers nothing
FreeLines == { <<"R", "&", "D">> }

\* non-blank answers to an entry's key prompt and to the "> " prompt of a list
KeyLines == { <<"x">>, <<"5", "0", "%">> }

\* lines typed into the summary (a blank line is a line like any other there)
SummaryLines ==
    { Blank,
      <<"E", "n", "g", "i", "n", "e", "e", "r", ".">>,
      <<"L", "o", "v", "e", "s", " ", "s", "y", "s", "t", "e", "m", "s", ".">> }

\* non-blank answers to a skills category prompt
SkillLines == { <<"a", ",", " ", "c", "_">> }

\* how many optional answers (summary lines, skills, entries, list items) the
\* user types in one whole run of main()
MaxOptional == 2

\* the same, when only the collection functions are run
MaxCollected == 3

-----------------------------------------------------------------------------
(* str helpers *)

\* sep.join(lines)
RECURSIVE Join(_, _)
Join(lines, sep) ==
    IF lines = << >> THEN << >>
    ELSE IF Len(lines) = 1 THEN lines[1]
    ELSE lines[1] \o sep \o Join(Tail(lines), sep)

\* s.split(sep) for a one-character sep
RECURSIVE Split(_, _)
Split(s, sep) ==
    LET hits == {i \in 1..Len(s) : s[i] = sep}
    IN  IF hits = {} THEN << s >>
        ELSE LET i == CHOOSE h \in hits : \A g \in hits : h <= g
             IN  << SubSeq(s, 1, i - 1) >> \o Split(SubSeq(s, i + 1, Len(s)), sep)

Whitespace == {" "}

\* s.strip()
RECURSIVE Strip(_)
Strip(s) ==
    IF s = << >> THEN s
    ELSE IF s[1] \in Whitespace THEN Strip(Tail(s))
    ELSE IF s[Len(s)] \in Whitespace THEN Strip(SubSeq(s, 1, Len(s) - 1))
    ELSE s

\* [skill.strip() for skill in user_input.split(',')]
SkillList(user_input) ==
    LET parts == Split(user_input, ",")
    IN  List([i \in 1..Len(parts) |-> Str(Strip(parts[i]))])

-----------------------------------------------------------------------------
(* The prompts, in the order the code asks them *)

PersonalFields ==
    << [key |-> <<"n", "a", "m", "e">>, prompt |-> "Full Name"],
       [key |-> <<"l", "o", "c", "a", "t", "i", "o", "n">>,
        prompt |-> "City, Country (e.g., Jaipur, India)"],
       [key |-> <<"p", "h", "o", "n", "e">>, prompt |-> "Phone Number"],
       [key |-> <<"e", "m", "a", "i", "l">>, prompt |-> "Email Address"],
       [key |-> <<"p", "o", "r", "t", "f", "o", "l", "i", "o">>,
        prompt |-> "Portfolio/Website URL"],
       [key |-> <<"l", "i", "n", "k", "e", "d", "i", "n">>,
        prompt |-> "LinkedIn Profile URL"],
       [key |-> <<"g", "i", "t", "h", "u", "b">>, prompt |-> "GitHub Profile URL"] >>

K_summary == <<"s", "u", "m", "m", "a", "r", "y">>

K_technical_skills ==
    <<"t", "e", "c", "h", "n", "i", "c", "a", "l", "_", "s", "k", "i", "l", "l", "s">>

categories ==
    << [key |-> <<"L", "a", "n", "g", "u", "a", "g", "e", "s">>,
        prompt |-> "Languages (comma-separated)"],
       [key |-> <<"F", "r", "a", "m", "e", "w", "o", "r", "k", "s">>,
        prompt |-> "Frameworks (comma-separated)"],
       [key |-> <<"M", "L", " ", "f", "r", "a", "m", "e", "w", "o", "r", "k", "s">>,
        prompt |-> "ML frameworks (comma-separated)"],
       [key |-> <<"D", "e", "v", "O", "p", "s", " ", "a", "n", "d", " ", "A", "P",
                  "I", " ", "T", "o", "o", "l", "s">>,
        prompt |-> "DevOps and API Tools (comma-separated)"],
       [key |-> <<"T", "o", "o", "l", "s">>, prompt |-> "Tools (comma-separated)"],
       [key |-> <<"D", "a", "t", "a", "b", "a", "s", "e">>,
        prompt |-> "Database (comma-separated)"] >>

K_start_date == <<"s", "t", "a", "r", "t", "_", "d", "a", "t", "e">>
K_end_date == <<"e", "n", "d", "_", "d", "a", "t", "e">>
K_description == <<"d", "e", "s", "c", "r", "i", "p", "t", "i", "o", "n">>
K_role == <<"r", "o", "l", "e">>
K_company == <<"c", "o", "m", "p", "a", "n", "y">>
K_title == <<"t", "i", "t", "l", "e">>
K_date == <<"d", "a", "t", "e">>

\* the prompt of input() inside get_list_input
ListPrompt == "> "

collect_experience ==
    [fn |-> "collect_experience",
     key |-> <<"e", "x", "p", "e", "r", "i", "e", "n", "c", "e">>,
     fields |-> << [key |-> K_role, prompt |-> "Role/Title"],
                   [key |-> K_company, prompt |-> "Company Name"],
                   [key |-> K_start_date, prompt |-> "Start Date (e.g., May 2025)"],
                   [key |-> K_end_date, prompt |-> "End Date (e.g., Present)"] >>,
     list |-> << K_description >>]

collect_internships ==
    [fn |-> "collect_internships",
     key |-> <<"i", "n", "t", "e", "r", "n", "s", "h", "i", "p", "s">>,
     fields |-> << [key |-> K_role, prompt |-> "Role/Title"],
                   [key |-> K_company, prompt |-> "Company/Program Name"],
                   [key |-> K_start_date, prompt |-> "Start Date (e.g., May 2021)"],
                   [key |-> K_end_date, prompt |-> "End Date (e.g., August 2021)"] >>,
     list |-> << K_description >>]

collect_education ==
    [fn |-> "collect_education",
     key |-> <<"e", "d", "u", "c", "a", "t", "i", "o", "n">>,
     fields |-> << [key |-> <<"u", "n", "i", "v", "e", "r", "s", "i", "t", "y">>,
                    prompt |-> "University/Board"],
                   [key |-> <<"d", "e", "g", "r", "e", "e">>,
                    prompt |-> "Degree (e.g., B.E. in ECE)"],
                   [key |-> <<"g", "p", "a">>,
                    prompt |-> "GPA/Percentage (e.g., CGPA: 7.1)"],
                   [key |-> K_start_date,
                    prompt |-> "Start Date (e.g., September 2018)"],
                   [key |-> K_end_date, prompt |-> "End Date (e.g., June 2022)"] >>,
     list |-> << >>]

collect_projects ==
    [fn |-> "collect_projects",
     key |-> <<"p", "r", "o", "j", "e", "c", "t", "s">>,
     fields |-> << [key |-> K_title, prompt |-> "Project Title"],
                   [key |-> <<"t", "e", "c", "h">>, prompt |-> "Technologies used"],
                   [key |-> K_date, prompt |-> "Date (e.g., January 2025)"] >>,
     list |-> << K_description >>]

collect_publications ==
    [fn |-> "collect_publications",
     key |-> <<"p", "u", "b", "l", "i", "c", "a", "t", "i", "o", "n", "s">>,
     fields |-> << [key |-> K_title, prompt |-> "Publication Title"],
                   [key |-> <<"u", "r", "l">>, prompt |-> "URL to the publication"],
                   [key |-> <<"v", "e", "n", "u", "e">>,
                    prompt |-> "Venue/Journal (e.g., ISSN: 2582-8436)"],
                   [key |-> K_date, prompt |-> "Date (e.g., June 2022)"] >>,
     list |-> << K_description >>]

\* the repeated-entry sections, in the order main() calls them
Sections ==
    << collect_experience, collect_internships, collect_education,
       collect_projects, collect_publications >>

-----------------------------------------------------------------------------
(* main(): collection *)

\* the working directory may hold what an earlier run left behind
Leftovers == { <<"resume", ".aux">>, <<"resume", ".log">>, <<"resume", ".out">> }

\* main() is about to run at position at, the record being data
InitAt(at, data, budget, present) ==
    /\ pc = at
    /\ idx = 1
    /\ sec = 1
    /\ resume_data = data
    /\ summary_lines = << >>
    /\ skills = EmptyDict
    /\ entries = << >>
    /\ fields = << >>
    /\ items = << >>
    /\ tty = << >>
    /\ fuel = budget
    /\ sanitized_resume_data = Unset
    /\ render_arg = Unset
    /\ files = present
    /\ runs = << >>
    /\ removed = << >>
    /\ stdout = << >>
    /\ calls = << >>

\* resume_data = {} at import; main() has not started
Init == \E present \in SUBSET Leftovers : InitAt("main", EmptyDict, MaxOptional, present)

\* what collection never touches
tail == << sanitized_resume_data, render_arg, files, runs, removed, stdout >>

\* main() starts and calls collect_personal_info()
Start ==
    /\ pc = "main"
    /\ pc' = "collect_personal_info"
    /\ idx' = 1
    /\ calls' = Append(calls, "collect_personal_info")
    /\ UNCHANGED << sec, resume_data, summary_lines, skills, entries, fields,
                    items, tty, fuel, tail >>

\* resume_data[key] = get_user_input(prompt), for each of the seven fields
PersonalInput ==
    /\ pc = "collect_personal_info"
    /\ \E ans \in FreeLines :
        /\ tty' = Append(tty, Read("collect_personal_info",
                                   PersonalFields[idx].prompt, Line(ans)))
        /\ resume_data' = SetItem(resume_data, PersonalFields[idx].key, Str(ans))
    /\ IF idx < Len(PersonalFields)
       THEN /\ idx' = idx + 1
            /\ UNCHANGED << pc, calls >>
       ELSE /\ pc' = "collect_summary"
            /\ idx' = 1
            /\ calls' = Append(calls, "collect_summary")
    /\ UNCHANGED << sec, summary_lines, skills, entries, fields, items, fuel, tail >>

\* a summary loop that drops the blank lines it reads
SummaryLine_skips_blank ==
    /\ pc = "collect_summary"
    /\ fuel > 0
    /\ \E line \in SummaryLines :
        /\ tty' = Append(tty, Read("collect_summary", "", Line(line)))
        /\ summary_lines' = IF line = Blank THEN summary_lines
                            ELSE Append(summary_lines, line)
    /\ fuel' = fuel - 1
    /\ UNCHANGED << pc, idx, sec, resume_data, skills, entries, fields, items,
                    calls, tail >>

\* collect_summary: input() returns a line, which is appended
SummaryLine ==
    /\ pc = "collect_summary"
    /\ fuel > 0
    /\ \E line \in SummaryLines :
        /\ tty' = Append(tty, Read("collect_summary", "", Line(line)))
        /\ summary_lines' = Append(summary_lines, line)
    /\ fuel' = fuel - 1
    /\ UNCHANGED << pc, idx, sec, resume_data, skills, entries, fields, items,
                    calls, tail >>

\* collect_summary: input() raises EOFError, the summary is joined and stored
SummaryEOF ==
    /\ pc = "collect_summary"
    /\ tty' = Append(tty, Read("collect_summary", "", EOF))
    /\ resume_data' = SetItem(resume_data, K_summary,
                              Str(Join(summary_lines, << " " >>)))
    /\ summary_lines' = << >>
    /\ pc' = "collect_technical_skills"
    /\ idx' = 1
    /\ skills' = EmptyDict
    /\ calls' = Append(calls, "collect_technical_skills")
    /\ UNCHANGED << sec, entries, fields, items, fuel, tail >>

\* collect_technical_skills: one category of the loop
SkillsInput ==
    /\ pc = "collect_technical_skills"
    /\ \E user_input \in {Blank} \cup (IF fuel > 0 THEN SkillLines ELSE {}) :
        LET filled == IF user_input # Blank
                      THEN SetItem(skills, categories[idx].key, SkillList(user_input))
                      ELSE skills
        IN  /\ tty' = Append(tty, Read("collect_technical_skills",
                                       categories[idx].prompt, Line(user_input)))
            /\ fuel' = IF user_input # Blank THEN fuel - 1 ELSE fuel
            /\ IF idx < Len(categories)
               THEN /\ skills' = filled
                    /\ idx' = idx + 1
                    /\ UNCHANGED << pc, sec, resume_data, entries, calls >>
               ELSE /\ resume_data' = SetItem(resume_data, K_technical_skills, filled)
                    /\ skills' = EmptyDict
                    /\ pc' = "section_key"
                    /\ sec' = 1
                    /\ idx' = 1
                    /\ entries' = << >>
                    /\ calls' = Append(calls, Sections[1].fn)
    /\ UNCHANGED << summary_lines, fields, items, tail >>

\* the entry dict of a section, from the answers fs and the list its
Entry(S, fs, its) ==
    Dict([k \in {S.fields[i].key : i \in 1..Len(S.fields)}
                \cup {S.list[i] : i \in 1..Len(S.list)} |->
            IF \E i \in 1..Len(S.list) : S.list[i] = k
            THEN List([i \in 1..Len(its) |-> Str(its[i])])
            ELSE Str(fs[CHOOSE i \in 1..Len(S.fields) : S.fields[i].key = k])])

\* a section stored newest entry first
KeyBlank_reversed ==
    /\ pc = "section_key"
    /\ tty' = Append(tty, Read(Sections[sec].fn, Sections[sec].fields[1].prompt,
                               Line(Blank)))
    /\ resume_data' = SetItem(resume_data, Sections[sec].key,
                              List([i \in 1..Len(entries) |->
                                       entries[Len(entries) + 1 - i]]))
    /\ entries' = << >>
    /\ IF sec < Len(Sections)
       THEN /\ sec' = sec + 1
            /\ calls' = Append(calls, Sections[sec + 1].fn)
            /\ UNCHANGED pc
       ELSE /\ pc' = "sanitize"
            /\ UNCHANGED << sec, calls >>
    /\ UNCHANGED << idx, summary_lines, skills, fields, items, fuel, tail >>

\* collect_<section>: the key prompt is answered blank; the section is stored
KeyBlank ==
    /\ pc = "section_key"
    /\ tty' = Append(tty, Read(Sections[sec].fn, Sections[sec].fields[1].prompt,
                               Line(Blank)))
    /\ resume_data' = SetItem(resume_data, Sections[sec].key, List(entries))
    /\ entries' = << >>
    /\ IF sec < Len(Sections)
       THEN /\ sec' = sec + 1
            /\ calls' = Append(calls, Sections[sec + 1].fn)
            /\ UNCHANGED pc
       ELSE /\ pc' = "sanitize"
            /\ UNCHANGED << sec, calls >>
    /\ UNCHANGED << idx, summary_lines, skills, fields, items, fuel, tail >>

\* collect_<section>: the key prompt is answered; an entry is begun
KeyAnswered ==
    /\ pc = "section_key"
    /\ fuel > 0
    /\ \E ans \in KeyLines :
        /\ tty' = Append(tty, Read(Sections[sec].fn,
                                   Sections[sec].fields[1].prompt, Line(ans)))
        /\ fields' = << ans >>
    /\ fuel' = fuel - 1
    /\ pc' = "section_field"
    /\ idx' = 2
    /\ UNCHANGED << sec, resume_data, summary_lines, skills, entries, items,
                    calls, tail >>

\* collect_<section>: one of the remaining single-line fields of the entry
FieldInput ==
    /\ pc = "section_field"
    /\ \E ans \in FreeLines :
        LET S == Sections[sec]
            got == Append(fields, ans)
        IN  /\ tty' = Append(tty, Read(S.fn, S.fields[idx].prompt, Line(ans)))
            /\ IF idx < Len(S.fields)
               THEN /\ idx' = idx + 1
                    /\ fields' = got
                    /\ UNCHANGED << pc, entries, items >>
               ELSE IF S.list # << >>
               THEN /\ pc' = "get_list_input"
                    /\ fields' = got
                    /\ items' = << >>
                    /\ UNCHANGED << idx, entries >>
               ELSE /\ entries' = Append(entries, Entry(S, got, << >>))
                    /\ fields' = << >>
                    /\ pc' = "section_key"
                    /\ UNCHANGED << idx, items >>
    /\ UNCHANGED << sec, resume_data, summary_lines, skills, fuel, calls, tail >>

\* get_list_input: a non-empty line is appended to items
ListItem ==
    /\ pc = "get_list_input"
    /\ fuel > 0
    /\ \E item \in KeyLines :
        /\ tty' = Append(tty, Read(Sections[sec].fn, ListPrompt, Line(item)))
        /\ items' = Append(items, item)
    /\ fuel' = fuel - 1
    /\ UNCHANGED << pc, idx, sec, resume_data, summary_lines, skills, entries,
                    fields, calls, tail >>

\* a list that stores its terminator too
ListEnd_keeps_terminator ==
    /\ pc = "get_list_input"
    /\ tty' = Append(tty, Read(Sections[sec].fn, ListPrompt, Line(Blank)))
    /\ entries' = Append(entries, Entry(Sections[sec], fields, Append(items, Blank)))
    /\ fields' = << >>
    /\ items' = << >>
    /\ pc' = "section_key"
    /\ UNCHANGED << idx, sec, resume_data, summary_lines, skills, fuel, calls, tail >>

\* get_list_input: an empty line ends the list; the entry is appended
ListEnd ==
    /\ pc = "get_list_input"
    /\ tty' = Append(tty, Read(Sections[sec].fn, ListPrompt, Line(Blank)))
    /\ entries' = Append(entries, Entry(Sections[sec], fields, items))
    /\ fields' = << >>
    /\ items' = << >>
    /\ pc' = "section_key"
    /\ UNCHANGED << idx, sec, resume_data, summary_lines, skills, fuel, calls, tail >>

\* the prompt main() is waiting at
CurrentPrompt ==
    CASE pc = "collect_personal_info" -> PersonalFields[idx].prompt
      [] pc = "collect_technical_skills" -> categories[idx].prompt
      [] pc = "section_key" -> Sections[sec].fields[1].prompt
      [] pc = "section_field" -> Sections[sec].fields[idx].prompt
      [] pc = "get_list_input" -> ListPrompt

CurrentFn ==
    IF pc \in {"section_key", "section_field", "get_list_input"}
    THEN Sections[sec].fn ELSE pc

\* input() raises EOFError anywhere but in collect_summary: nothing catches it
UncaughtEOF ==
    /\ pc \in {"collect_personal_info", "collect_technical_skills", "section_key",
               "section_field", "get_list_input"}
    /\ tty' = Append(tty, Read(CurrentFn, CurrentPrompt, EOF))
    /\ pc' = "crashed"
    /\ UNCHANGED << idx, sec, resume_data, summary_lines, skills, entries, fields,
                    items, fuel, calls, tail >>

-----------------------------------------------------------------------------
(* main(): sanitize, render, compile, clean up *)

collecting == << idx, sec, resume_data, summary_lines, skills, entries, fields,
                 items, tty, fuel >>

output_filename_base == "resume"
tex_filename == << output_filename_base, ".tex" >>
PdfFile == << output_filename_base, ".pdf" >>
\* what every pdflatex run that starts writes
RunFiles == { << output_filename_base, ".log" >>, << output_filename_base, ".aux" >> }
\* what it writes only if the template loads hyperref
OutFile == << output_filename_base, ".out" >>

extensions_to_clean == << ".aux", ".log", ".out" >>

\* a report main() prints
Message(msg, returncode, output) ==
    [msg |-> msg, returncode |-> returncode, output |-> output]

\* sanitized_resume_data = sanitize_data(resume_data)
Sanitize ==
    /\ pc = "sanitize"
    /\ sanitized_resume_data' = sanitize_data(resume_data)
    /\ calls' = Append(calls, "sanitize_data")
    /\ pc' = "render"
    /\ UNCHANGED << collecting, render_arg, files, runs, removed, stdout >>

\* a render of the raw record
Render_raw ==
    /\ pc = "render"
    /\ render_arg' = resume_data
    /\ calls' = Append(calls, "render")
    /\ pc' = "write_tex"
    /\ UNCHANGED << collecting, sanitized_resume_data, files, runs, removed, stdout >>

\* output_from_template = template.render(sanitized_resume_data)
Render ==
    /\ pc = "render"
    /\ render_arg' = sanitized_resume_data
    /\ calls' = Append(calls, "render")
    /\ pc' = "write_tex"
    /\ UNCHANGED << collecting, sanitized_resume_data, files, runs, removed, stdout >>

\* resume.tex is written, both notices are printed, the try block is entered
WriteTex ==
    /\ pc = "write_tex"
    /\ files' = files \cup {tex_filename}
    /\ stdout' = stdout \o << Message("created", 0, 0), Message("compiling", 0, 0) >>
    /\ calls' = Append(calls, "compile")
    /\ pc' = "compile"
    /\ idx' = 0
    /\ UNCHANGED << sec, resume_data, summary_lines, skills, entries, fields,
                    items, tty, fuel, sanitized_resume_data, render_arg, runs,
                    removed >>

\* a compile stage that runs pdflatex once
CompilerSucceeds_once ==
    /\ pc = "compile"
    /\ \E made \in SUBSET {OutFile} :
        files' = files \cup RunFiles \cup {PdfFile} \cup made
    /\ runs' = Append(runs, [started |-> TRUE, returncode |-> 0])
    /\ idx' = idx + 1
    /\ pc' = "print_success"
    /\ UNCHANGED << sec, resume_data, summary_lines, skills, entries, fields,
                    items, tty, fuel, sanitized_resume_data, render_arg, removed,
                    stdout, calls >>

\* subprocess.run(..., check=True) returns: pdflatex exited 0
CompilerSucceeds ==
    /\ pc = "compile"
    /\ \E made \in SUBSET {OutFile} :
        files' = files \cup RunFiles \cup {PdfFile} \cup made
    /\ runs' = Append(runs, [started |-> TRUE, returncode |-> 0])
    /\ idx' = idx + 1
    /\ pc' = IF idx + 1 < 2 THEN "compile" ELSE "print_success"
    /\ UNCHANGED << sec, resume_data, summary_lines, skills, entries, fields,
                    items, tty, fuel, sanitized_resume_data, render_arg, removed,
                    stdout, calls >>

\* subprocess.run without check=True: a non-zero exit raises nothing
CompilerFails_unchecked ==
    /\ pc = "compile"
    /\ \E made \in SUBSET {OutFile, PdfFile} :
        files' = files \cup RunFiles \cup made
    /\ runs' = Append(runs, [started |-> TRUE, returncode |-> 1])
    /\ idx' = idx + 1
    /\ pc' = IF idx + 1 < 2 THEN "compile" ELSE "print_success"
    /\ UNCHANGED << sec, resume_data, summary_lines, skills, entries, fields,
                    items, tty, fuel, sanitized_resume_data, render_arg, removed,
                    stdout, calls >>

\* subprocess.run raises CalledProcessError: pdflatex exited non-zero
CompilerFails ==
    /\ pc = "compile"
    /\ \E made \in SUBSET {OutFile, PdfFile} :
        files' = files \cup RunFiles \cup made
    /\ runs' = Append(runs, [started |-> TRUE, returncode |-> 1])
    /\ pc' = "except_CalledProcessError"
    /\ UNCHANGED << collecting, sanitized_resume_data, render_arg, removed,
                    stdout, calls >>

\* subprocess.run raises FileNotFoundError: there is no pdflatex to start
CompilerNotFound ==
    /\ pc = "compile"
    /\ runs' = Append(runs, [started |-> FALSE, returncode |-> 0])
    /\ pc' = "except_FileNotFoundError"
    /\ UNCHANGED << collecting, sanitized_resume_data, render_arg, files, removed,
                    stdout, calls >>

\* the print after the loop
PrintSuccess ==
    /\ pc = "print_success"
    /\ stdout' = Append(stdout, Message("success", 0, 0))
    /\ pc' = "finally"
    /\ UNCHANGED << collecting, sanitized_resume_data, render_arg, files, runs,
                    removed, calls >>

\* except FileNotFoundError: ... return
ExceptFileNotFound ==
    /\ pc = "except_FileNotFoundError"
    /\ stdout' = Append(stdout, Message("not_found", 0, 0))
    /\ pc' = "finally"
    /\ UNCHANGED << collecting, sanitized_resume_data, render_arg, files, runs,
                    removed, calls >>

\* except subprocess.CalledProcessError as e: ... return
ExceptCalledProcessError ==
    /\ pc = "except_CalledProcessError"
    /\ stdout' = Append(stdout, Message("compile_error",
                                        runs[Len(runs)].returncode, Len(runs)))
    /\ pc' = "finally"
    /\ UNCHANGED << collecting, sanitized_resume_data, render_arg, files, runs,
                    removed, calls >>

\* the paths the cleanup loop removes: those of extensions_to_clean that exist
RECURSIVE ToRemove(_, _)
ToRemove(present, i) ==
    IF i > Len(extensions_to_clean) THEN << >>
    ELSE LET path == << output_filename_base, extensions_to_clean[i] >>
         IN  (IF path \in present THEN << path >> ELSE << >>)
             \o ToRemove(present, i + 1)

\* a cleanup written after the try statement: a handler's return skips it
Finally_after_try ==
    /\ pc = "finally"
    /\ LET gone == IF stdout[Len(stdout)].msg = "success"
                   THEN ToRemove(files, 1) ELSE << >>
       IN  /\ removed' = removed \o gone
           /\ files' = files \ {gone[i] : i \in 1..Len(gone)}
           /\ calls' = IF stdout[Len(stdout)].msg = "success"
                       THEN Append(calls, "cleanup") ELSE calls
    /\ pc' = "done"
    /\ UNCHANGED << collecting, sanitized_resume_data, render_arg, runs, stdout >>

\* finally: the cleanup loop; then main() returns
Finally ==
    /\ pc = "finally"
    /\ LET gone == ToRemove(files, 1)
       IN  /\ removed' = removed \o gone
           /\ files' = files \ {gone[i] : i \in 1..Len(gone)}
    /\ calls' = Append(calls, "cleanup")
    /\ pc' = "done"
    /\ UNCHANGED << collecting, sanitized_resume_data, render_arg, runs, stdout >>

Next ==
    \/ Start
    \/ PersonalInput
    \/ SummaryLine
    \/ SummaryEOF
    \/ SkillsInput
    \/ KeyBlank
    \/ KeyAnswered
    \/ FieldInput
    \/ ListItem
    \/ ListEnd
    \/ UncaughtEOF
    \/ Sanitize
    \/ Render
    \/ WriteTex
    \/ CompilerSucceeds
    \/ CompilerFails
    \/ CompilerNotFound
    \/ PrintSuccess
    \/ ExceptFileNotFound
    \/ ExceptCalledProcessError
    \/ Finally

Spec == Init /\ [][Next]_vars

\* the collection functions alone, with a user who types more
CollectInit == InitAt("main", EmptyDict, MaxCollected, {})

CollectNext ==
    \/ Start
    \/ PersonalInput
    \/ SummaryLine
    \/ SummaryEOF
    \/ SkillsInput
    \/ KeyBlank
    \/ KeyAnswered
    \/ FieldInput
    \/ ListItem
    \/ ListEnd
    \/ UncaughtEOF

SpecCollect == CollectInit /\ [][CollectNext]_vars

-----------------------------------------------------------------------------
(* sanitize_data on arbitrary values *)

\* longest string handed to escape_latex_special_chars
MaxStrLen == 3

\* deepest nesting of the values handed to sanitize_data
MaxDepth == 2

\* the ten characters of conv, and two that are not
EscAlphabet == {"\\", "&", "%", "$", "#", "_", "{", "}", "~", "^", "a", "t"}

Texts == UNION {[1..n -> EscAlphabet] : n \in 0..MaxStrLen}

Leaves == { Str(<<"a", " ", "b">>), Str(<<"x", "&">>), Other(0) }

DictKeys == { <<"k">>, <<"a", "_", "b">> }

\* the containers that hold v, alone or beside one leaf
Wrap(v) ==
    {List(<< v >>)}
    \cup {List(<< l, v >>) : l \in Leaves}
    \cup {List(<< v, l >>) : l \in Leaves}
    \cup {Dict(k :> v) : k \in DictKeys}
    \cup UNION {UNION {{Dict(k :> v @@ j :> l) : l \in Leaves} :
                           j \in DictKeys \ {k}} : k \in DictKeys}

RECURSIVE Values(_)
Values(d) ==
    IF d = 0 THEN Leaves
    ELSE Leaves \cup {List(<< >>), EmptyDict}
         \cup UNION {Wrap(v) : v \in Values(d - 1)}

\* main() at the call sanitize_data(resume_data), for any record at all
SanitizeInit ==
    \E data \in Values(MaxDepth) \cup {Str(s) : s \in Texts} :
        InitAt("sanitize", data, 0, {})

SpecSanitize == SanitizeInit /\ [][Sanitize]_vars

-----------------------------------------------------------------------------
(* Properties of the escaping pass, under SpecSanitize *)

Special8 == {"\\", "&", "%", "$", "#", "_", "{", "}"}
Glyphs == {"~", "^"}
TildeGlyph == <<"\\", "t", "e", "x", "t", "a", "s", "c", "i", "i", "t", "i", "l",
                "d", "e", "{", "}">>
CircumGlyph == <<"\\", "t", "e", "x", "t", "a", "s", "c", "i", "i", "c", "i", "r",
                 "c", "u", "m", "{", "}">>

\* sanitize_data has returned
Sanitized == pc = "render"

\* position i of out is escaped: a backslash that is itself not escaped precedes it
RECURSIVE EscapedAt(_, _)
EscapedAt(out, i) == i > 1 /\ out[i - 1] = "\\" /\ ~EscapedAt(out, i - 1)

\* position i of out holds one of the eight characters, neither escaped nor,
\* for a backslash, escaping the character after it
UnescapedAt(out, i) ==
    /\ out[i] \in Special8
    /\ ~EscapedAt(out, i)
    /\ ~(out[i] = "\\" /\ i < Len(out))

\* C3 as stated: the escaped string holds no unescaped \ & % $ # _ { } and no
\* raw ~ or ^
C3_NoUnescapedSpecial ==
    (Sanitized /\ resume_data.tag = "str") =>
        \A i \in 1..Len(sanitized_resume_data.val) :
            /\ ~UnescapedAt(sanitized_resume_data.val, i)
            /\ sanitized_resume_data.val[i] \notin Glyphs

\* the piece of out that starts at pos: its length (0 if out cannot be read there)
TokenLen(out, pos) ==
    IF out[pos] = "\\"
    THEN IF pos < Len(out) /\ out[pos + 1] \in Special8 THEN 2
         ELSE IF MatchesAt(TildeGlyph, out, pos) THEN Len(TildeGlyph)
         ELSE IF MatchesAt(CircumGlyph, out, pos) THEN Len(CircumGlyph)
         ELSE 0
    ELSE IF out[pos] \in Special8 \cup Glyphs THEN 0
    ELSE 1

\* the character that piece stands for
TokenChar(out, pos) ==
    IF out[pos] # "\\" THEN out[pos]
    ELSE IF pos < Len(out) /\ out[pos + 1] \in Special8 THEN out[pos + 1]
    ELSE IF MatchesAt(TildeGlyph, out, pos) THEN "~"
    ELSE "^"

\* out read back piece by piece; "unreadable" marks where it cannot be read
RECURSIVE Decode(_, _)
Decode(out, pos) ==
    IF pos > Len(out) THEN << >>
    ELSE IF TokenLen(out, pos) = 0 THEN << "unreadable" >>
    ELSE << TokenChar(out, pos) >> \o Decode(out, pos + TokenLen(out, pos))

\* C3, amended: the escaped string is made only of the pieces backslash + one of
\* \ & % $ # _ { }, the two glyph sequences \textasciitilde{} and
\* \textasciicircum{}, and single characters that are none of the ten; read back
\* piece by piece it is the input.  So & % $ # _ never occur unescaped, ~ and ^
\* never occur, and the only unescaped \ { } are those of a glyph sequence.
C3_EscapedReadsBack ==
    (Sanitized /\ resume_data.tag = "str") =>
        /\ Decode(sanitized_resume_data.val, 1) = resume_data.val
        /\ \A i \in 1..Len(sanitized_resume_data.val) :
              sanitized_resume_data.val[i] \in {"&", "%", "$", "#", "_"}
                  => EscapedAt(sanitized_resume_data.val, i)

\* a string with a backslash, a brace and a tilde has been escaped
C3_Witness ==
    /\ Sanitized
    /\ resume_data = Str(<<"\\", "{", "~">>)
    /\ sanitized_resume_data =
          Str(<<"\\", "\\", "\\", "{">> \o TildeGlyph)

\* a value with its strings blanked out
RECURSIVE Shape(_)
Shape(data) ==
    IF data.tag = "dict" THEN Dict([k \in DOMAIN data.val |-> Shape(data.val[k])])
    ELSE IF data.tag = "list"
    THEN List([i \in 1..Len(data.val) |-> Shape(data.val[i])])
    ELSE IF data.tag = "str" THEN Str(<< >>)
    ELSE data

\* C4: sanitize_data returns a value of the same shape as its argument: the same
\* keys (unescaped), the same list lengths and order, the same nesting, every
\* non-string leaf unchanged; only the strings may differ
C4_ShapePreserved ==
    Sanitized =>
        /\ sanitized_resume_data # Unset
        /\ Shape(sanitized_resume_data) = Shape(resume_data)

\* a dict whose key holds an underscore, over a list of a non-string and a string
\* that escaping changes
C4_Witness ==
    /\ Sanitized
    /\ resume_data = Dict(<<"a", "_", "b">> :> List(<< Other(0), Str(<<"x", "&">>) >>))
    /\ sanitized_resume_data =
          Dict(<<"a", "_", "b">> :> List(<< Other(0), Str(<<"x", "\\", "&">>) >>))

\* no string of the value (keys aside) holds one of the ten characters
RECURSIVE NoSpecial(_)
NoSpecial(data) ==
    IF data.tag = "dict" THEN \A k \in DOMAIN data.val : NoSpecial(data.val[k])
    ELSE IF data.tag = "list" THEN \A i \in 1..Len(data.val) : NoSpecial(data.val[i])
    ELSE IF data.tag = "str"
    THEN \A i \in 1..Len(data.val) : data.val[i] \notin Special8 \cup Glyphs
    ELSE TRUE

\* C5: a value whose strings hold none of the ten characters is returned equal
C5_IdentityWithoutSpecial ==
    (Sanitized /\ NoSpecial(resume_data)) => sanitized_resume_data = resume_data

\* a nested value with a non-empty string and none of the ten characters
C5_Witness ==
    /\ Sanitized
    /\ resume_data = List(<< Dict(<<"k">> :> Str(<<"a", " ", "b">>)), Other(0) >>)
    /\ sanitized_resume_data = resume_data

-----------------------------------------------------------------------------
(* Properties of collection, under SpecCollect *)

\* the input() calls made on behalf of the function fn, in order
ReadsOf(fn) == SelectSeq(tty, LAMBDA r : r.fn = fn)

\* r is an input() call with prompt prompt that returned a line
ReadLine(r, prompt) == r.prompt = prompt /\ ~r.read.eof

\* the keys of an entry of section S
EntryKeys(S) ==
    {S.fields[j].key : j \in 1..Len(S.fields)} \cup {S.list[j] : j \in 1..Len(S.list)}

\* the reads T of section S, from read i on, are: for each stored entry from e on,
\* a non-blank key, the remaining fields in the fixed order, and (if the section
\* has a list) its items and a blank; then one blank key, which is the last read
RECURSIVE SectionAgrees(_, _, _, _, _)
SectionAgrees(S, T, i, stored, e) ==
    /\ i <= Len(T)
    /\ ReadLine(T[i], S.fields[1].prompt)
    /\ IF T[i].read.line = Blank
       THEN i = Len(T) /\ e = Len(stored) + 1
       ELSE LET n == Len(S.fields) IN
            /\ e <= Len(stored)
            /\ stored[e].tag = "dict"
            /\ DOMAIN stored[e].val = EntryKeys(S)
            /\ i + n - 1 <= Len(T)
            /\ \A j \in 1..n :
                  /\ ReadLine(T[i + j - 1], S.fields[j].prompt)
                  /\ stored[e].val[S.fields[j].key] = Str(T[i + j - 1].read.line)
            /\ IF S.list = << >>
               THEN SectionAgrees(S, T, i + n, stored, e + 1)
               ELSE LET d == stored[e].val[S.list[1]]
                        m == Len(d.val)
                    IN  /\ d.tag = "list"
                        /\ i + n + m <= Len(T)
                        /\ \A j \in 1..m :
                              /\ ReadLine(T[i + n + j - 1], ListPrompt)
                              /\ T[i + n + j - 1].read.line # Blank
                              /\ d.val[j] = Str(T[i + n + j - 1].read.line)
                        /\ ReadLine(T[i + n + m], ListPrompt)
                        /\ T[i + n + m].read.line = Blank
                        /\ SectionAgrees(S, T, i + n + m + 1, stored, e + 1)

\* section s has been stored in resume_data
Stored(s) == Sections[s].key \in DOMAIN resume_data.val

\* C6: a stored section holds one entry per non-blank key answered before the
\* first blank key, in input order, each with its fields as prompted in the fixed
\* order; the blank key is the last prompt of the section; a first key answered
\* blank stores an empty list
C6_SectionStopsAtBlankKey ==
    \A s \in 1..Len(Sections) :
        Stored(s) =>
            /\ resume_data.val[Sections[s].key].tag = "list"
            /\ SectionAgrees(Sections[s], ReadsOf(Sections[s].fn), 1,
                             resume_data.val[Sections[s].key].val, 1)

\* experience holds two entries in the order typed, internships none
C6_Witness ==
    /\ Stored(1)
    /\ Stored(2)
    /\ Len(resume_data.val[Sections[1].key].val) = 2
    /\ resume_data.val[Sections[1].key].val[1].val[K_role] = Str(<<"5", "0", "%">>)
    /\ resume_data.val[Sections[1].key].val[2].val[K_role] = Str(<<"x">>)
    /\ resume_data.val[Sections[2].key].val = << >>

\* get_list_input has just returned into the entry appended last
ListReturned ==
    /\ pc = "section_key"
    /\ entries # << >>
    /\ Sections[sec].list # << >>
    /\ tty[Len(tty)].prompt = ListPrompt

\* C7: the list get_list_input returns is the lines it read before the first
\* empty line, in order; the empty line is read but not stored, and it is the
\* last line that call reads
C7_ListStopsAtEmptyLine ==
    /\ ListReturned =>
          LET d == entries[Len(entries)].val[K_description]
              m == Len(d.val)
              n == Len(tty)
          IN  /\ d.tag = "list"
              /\ n >= m + 2
              /\ tty[n].read = Line(Blank)
              /\ \A j \in 1..m :
                    /\ ReadLine(tty[n - m - 1 + j], ListPrompt)
                    /\ tty[n - m - 1 + j].read.line # Blank
                    /\ d.val[j] = Str(tty[n - m - 1 + j].read.line)
              /\ tty[n - m - 1].prompt # ListPrompt
    /\ pc = "get_list_input" =>
          /\ Len(tty) >= Len(items) + 1
          /\ \A j \in 1..Len(items) :
                tty[Len(tty) - Len(items) + j] =
                    Read(Sections[sec].fn, ListPrompt, Line(items[j]))
          /\ tty[Len(tty) - Len(items)].prompt # ListPrompt
    /\ \A i \in 1..(Len(tty) - 1) :
          (tty[i].prompt = ListPrompt /\ tty[i].read = Line(Blank))
              => tty[i + 1].prompt # ListPrompt

\* a list of two lines has been returned, in the order typed
C7_Witness ==
    /\ ListReturned
    /\ entries[Len(entries)].val[K_description] =
          List(<< Str(<<"5", "0", "%">>), Str(<<"x">>) >>)

\* r, from offset off on, is lines[i], a space, lines[i+1], ... and nothing more
RECURSIVE SpacedFrom(_, _, _, _)
SpacedFrom(r, lines, i, off) ==
    IF i > Len(lines) THEN Len(r) = off \/ (lines = << >> /\ r = << >>)
    ELSE /\ off + Len(lines[i]) <= Len(r)
         /\ \A j \in 1..Len(lines[i]) : r[off + j] = lines[i][j]
         /\ IF i = Len(lines) THEN Len(r) = off + Len(lines[i])
            ELSE /\ off + Len(lines[i]) + 1 <= Len(r)
                 /\ r[off + Len(lines[i]) + 1] = " "
                 /\ SpacedFrom(r, lines, i + 1, off + Len(lines[i]) + 1)

Engineer == <<"E", "n", "g", "i", "n", "e", "e", "r", ".">>
LovesSystems == <<"L", "o", "v", "e", "s", " ", "s", "y", "s", "t", "e", "m", "s", ".">>

\* C8: the summary is every line read before the end-of-input signal, blank
\* lines included, joined by single spaces; only end of input ends the reading
C8_SummaryJoinsLinesUntilEOF ==
    LET T == ReadsOf("collect_summary")
        lines == [i \in 1..(Len(T) - 1) |-> T[i].read.line]
    IN  /\ pc = "collect_summary" =>
              /\ K_summary \notin DOMAIN resume_data.val
              /\ \A i \in 1..Len(T) : ~T[i].read.eof
              /\ summary_lines = [i \in 1..Len(T) |-> T[i].read.line]
        /\ K_summary \in DOMAIN resume_data.val =>
              /\ Len(T) >= 1
              /\ T[Len(T)].read.eof
              /\ \A i \in 1..(Len(T) - 1) : ~T[i].read.eof
              /\ resume_data.val[K_summary].tag = "str"
              /\ SpacedFrom(resume_data.val[K_summary].val, lines, 1, 0)
              /\ lines = << Engineer, LovesSystems >> =>
                    resume_data.val[K_summary].val
                        = Engineer \o << " " >> \o LovesSystems
              /\ lines = << >> => resume_data.val[K_summary].val = << >>

\* "Engineer.", a blank line and "Loves systems." were typed, then end of input
C8_Witness ==
    /\ K_summary \in DOMAIN resume_data.val
    /\ resume_data.val[K_summary].val = Engineer \o << " ", " " >> \o LovesSystems
    /\ Len(ReadsOf("collect_summary")) = 4

-----------------------------------------------------------------------------
(* Properties of a whole run of main(), under Spec *)

Occurs(x, seq) == \E i \in 1..Len(seq) : seq[i] = x

Count(x, seq) == Cardinality({i \in 1..Len(seq) : seq[i] = x})

\* the run is over: main() returned, or an uncaught exception ended it
Ended == pc \in {"done", "crashed"}

Zero(run) == run.started /\ run.returncode = 0

C2_SecondRunIffFirstZero ==
    /\ Len(runs) <= 2
    /\ Len(runs) = 2 => Zero(runs[1])
    /\ (Len(runs) = 1 /\ Zero(runs[1])) => (pc = "compile" /\ idx = 1)
    /\ pc \in {"print_success", "except_FileNotFoundError",
               "except_CalledProcessError", "finally", "done"} =>
          /\ Len(runs) >= 1
          /\ Zero(runs[1]) <=> Len(runs) = 2

\* the first run exited zero, the second was made and failed; main() returned
C2_Witness ==
    /\ pc = "done"
    /\ runs = << [started |-> TRUE, returncode |-> 0],
                 [started |-> TRUE, returncode |-> 1] >>

\* the stages of main(), in the order of its statements
StageOrder ==
    << "collect_personal_info", "collect_summary", "collect_technical_skills",
       "collect_experience", "collect_internships", "collect_education",
       "collect_projects", "collect_publications", "sanitize_data", "render",
       "compile", "cleanup" >>

\* the keys of the finished record
RecordKeys ==
    {PersonalFields[i].key : i \in 1..Len(PersonalFields)}
    \cup {K_summary, K_technical_skills}
    \cup {Sections[i].key : i \in 1..Len(Sections)}

Reports == {"success", "not_found", "compile_error"}

ReportsPrinted == SelectSeq(stdout, LAMBDA m : m.msg \in Reports)

\* C10: a run that reaches the compilation stage prints exactly one of the three
\* reports: success exactly when two runs started and exited zero, "not found"
\* exactly when the last run could not start, and otherwise the error with the
\* exit code and the output of the run that failed
C10_OneReport ==
    /\ Len(ReportsPrinted) <= 1
    /\ pc \in {"finally", "done"} =>
          /\ Len(ReportsPrinted) = 1
          /\ ReportsPrinted[1].msg = "success" <=>
                (Len(runs) = 2 /\ Zero(runs[1]) /\ Zero(runs[2]))
          /\ ReportsPrinted[1].msg = "not_found" <=> ~runs[Len(runs)].started
          /\ ReportsPrinted[1].msg = "compile_error" <=>
                (runs[Len(runs)].started /\ runs[Len(runs)].returncode # 0)
          /\ ReportsPrinted[1].msg = "compile_error" =>
                /\ ReportsPrinted[1].returncode = runs[Len(runs)].returncode
                /\ ReportsPrinted[1].output = Len(runs)

\* both runs exited zero and success was reported
C10_Witness ==
    /\ pc = "done"
    /\ Len(runs) = 2
    /\ Zero(runs[2])
    /\ ReportsPrinted = << Message("success", 0, 0) >>

====
